---- MODULE Spec2Model ----
(***************************************************************************)
(* State-machine model of backend/main.py (InterviewFlow): the in-memory   *)
(* session registry, the ConnectionManager, the sliding-window rate        *)
(* limiter and the websocket handler, one action per non-yielding block    *)
(* of each coroutine (a block ends at an await that can suspend).          *)
(***************************************************************************)
EXTENDS Integers, Sequences, FiniteSets, TLC

\* ------------------------------------------------------------------ bounds
\* The identifier space generate_session_id draws from (2^64 values in the
\* code, a set of two here), the websockets and the client addresses.
SessionIds == {"s1", "s2"}
Channels == {"c1", "c2"}
ClientIps == {"ip1", "ip2"}
WsClientIps == {"ip1"}      \* the addresses websockets connect from
PlanTiers == {"free", "premium"}
LimitTypes == {"requests", "audio_chunks"}

MaxObjs == 2       \* session records ever created by start_interview
MaxFrames == 1     \* inbound frames the websockets deliver in all
MaxCalls == 4      \* check_rate_limit calls in the limiter specification
MaxTicks == 4      \* clock advances in the limiter specification
TickLen == 30      \* seconds per clock advance
MaxLimit == 2      \* largest limit passed in the limiter specification
MaxChanFrames == 3 \* inbound frames in the single-websocket specification

\* ------------------------------------------------------- program constants
WINDOW == 60                   \* main.py:140  minute_ago = now - 60
NOT_FOUND_CODE == 4004         \* main.py:398  websocket.close(code=4004)
\* main.py:62 reads the limit from the environment (default "300"); the model
\* runs the deployment AUDIO_CHUNKS_PER_MINUTE=1, where the second binary
\* frame of a client within a minute is already denied.
AUDIO_CHUNKS_PER_MINUTE == 1
\* main.py:61 reads it from the environment (default "60"); here the
\* deployment REQUESTS_PER_MINUTE=1.  No statement of main.py reads it.
REQUESTS_PER_MINUTE == 1
MAX_UPLOAD_BYTES == 5242880    \* main.py:369  5 * 1024 * 1024
EXTRACT_LIMIT == 2000          \* main.py:382  extracted_text[:2000]

NoChan == "none"
NoSid == "none"
NoMeta == [client_ip |-> "none", connected_at |-> -1, last_activity |-> -1]
NoTime == -1

VARIABLES
    now,                 \* time.time()
    active_sessions,     \* session id -> index into objs, 0 = key absent
    objs,                \* the session dicts ever created (heap), in order
    active_connections,  \* manager.active_connections: session id -> websocket
    connection_metadata, \* manager.connection_metadata: session id -> dict
    rate_limit_storage,  \* defaultdict: client id -> {requests, audio_chunks}
    pc,                  \* per websocket: position of its websocket_endpoint task
    ws_sid,              \* per websocket: the session_id path parameter
    ws_ip,               \* per websocket: get_client_ip(websocket)
    accepted,            \* per websocket: websocket.accept() has completed
    close_code,          \* per websocket: code of websocket.close(), 0 = none
    clientGone,          \* per websocket: the client has disconnected
    outbox,              \* per websocket: envelopes delivered to its client
    pending,             \* per websocket task: the send_text it is awaiting
    h_session,           \* per websocket task: handle_audio_data's `session`
    frames,              \* per websocket: inbound frames received so far
    cur,                 \* per websocket task: the frame it last received
    http_resp,           \* the last mock_upgrade response
    ticks,               \* number of clock advances so far
    rl_calls,            \* number of check_rate_limit calls so far
    rl_last,             \* arguments and result of the last check_rate_limit
    admitted             \* history: timestamps of admitted calls per key, type

vars == <<now, active_sessions, objs, active_connections, connection_metadata,
          rate_limit_storage, pc, ws_sid, ws_ip, accepted, close_code,
          clientGone, outbox, pending, h_session, frames, cur, http_resp,
          ticks, rl_calls, rl_last, admitted>>

sessionVars == <<active_sessions, objs>>
registryVars == <<active_connections, connection_metadata>>
rlVars == <<rate_limit_storage, rl_calls, rl_last, admitted>>
wsVars == <<pc, ws_sid, ws_ip, accepted, close_code, clientGone, outbox,
            pending, h_session, frames, cur>>

\* ------------------------------------------------------------ rate limiter
\* rate_limit_storage is a defaultdict: a key is absent until first read, and
\* the read inserts {"requests": [], "audio_chunks": []} (main.py:60).
AbsentRecord == [present |-> FALSE, requests |-> <<>>, audio_chunks |-> <<>>]
FreshRecord == [present |-> TRUE, requests |-> <<>>, audio_chunks |-> <<>>]

\* rate_limit_storage[client_id]: the record read, inserted when missing.
StorageGet(st, k) == IF st[k].present THEN st[k] ELSE FreshRecord

\* Variants of Prune: one keeps a timestamp exactly 60 seconds old, the
\* other drops nothing.
Prune_keepBoundary(seq, t) == SelectSeq(seq, LAMBDA ts : ts >= t - WINDOW)

Prune_none(seq, t) == seq

\* [timestamp for timestamp in ... if timestamp > minute_ago]
Prune(seq, t) == SelectSeq(seq, LAMBDA ts : ts > t - WINDOW)

\* Variant of check_rate_limit that records the time of a denied call too.
check_rate_limit_countsDenied(st, k, lt, limit, t) ==
    LET rec == StorageGet(st, k)
        pruned == Prune(rec[lt], t)
        st1 == [st EXCEPT ![k] = [rec EXCEPT ![lt] = Append(pruned, t)]]
    IN  [ok |-> Len(pruned) < limit, storage |-> st1]

\* Variant of check_rate_limit whose record keeps one list for both
\* categories.
check_rate_limit_sharedList(st, k, lt, limit, t) ==
    LET rec == StorageGet(st, k)
        pruned == Prune(rec[lt], t)
        both(seq) == [rec EXCEPT !.requests = seq, !.audio_chunks = seq]
    IN  IF Len(pruned) >= limit
        THEN [ok |-> FALSE, storage |-> [st EXCEPT ![k] = both(pruned)]]
        ELSE [ok |-> TRUE,
              storage |-> [st EXCEPT ![k] = both(Append(pruned, t))]]

\* check_rate_limit(client_id, limit_type, limit) at time t on storage st:
\* the decision and the storage it leaves.
check_rate_limit(st, k, lt, limit, t) ==
    LET rec == StorageGet(st, k)
        pruned == Prune(rec[lt], t)
        st1 == [st EXCEPT ![k] = [rec EXCEPT ![lt] = pruned]]
    IN  IF Len(pruned) >= limit
        THEN [ok |-> FALSE, storage |-> st1]
        ELSE [ok |-> TRUE,
              storage |-> [st1 EXCEPT ![k][lt] = Append(pruned, t)]]

\* One call of check_rate_limit as a state change (with its history).
RateLimitCall(k, lt, limit) ==
    LET r == check_rate_limit(rate_limit_storage, k, lt, limit, now)
    IN  /\ rate_limit_storage' = r.storage
        /\ rl_calls' = rl_calls + 1
        /\ rl_last' = [key |-> k, type |-> lt, limit |-> limit, t |-> now,
                       ok |-> r.ok]
        /\ admitted' = IF r.ok
                       THEN [admitted EXCEPT ![k][lt] = Append(@, now)]
                       ELSE admitted

\* ------------------------------------------------------ connection manager
\* Variant of disconnect that forgets the second deletion.
disconnect_keepMetadata(conns, meta, sid) ==
    [conns |-> [conns EXCEPT ![sid] = NoChan], meta |-> meta]

\* ConnectionManager.disconnect(session_id)
disconnect(conns, meta, sid) ==
    [conns |-> [conns EXCEPT ![sid] = NoChan],
     meta |-> [meta EXCEPT ![sid] = NoMeta]]

\* ---------------------------------------------------------------- feedback
\* Draws of the four random.randint calls of main.py:259-262: the lowest and
\* the highest of each range, and two draws whose sum leaves a remainder of
\* 1 and of 3 when divided by 4.
FBScoreSamples == {<<60, 55, 65, 60>>, <<61, 55, 65, 60>>, <<95, 55, 95, 90>>,
                   <<95, 90, 95, 90>>}

\* Variants of generate_feedback: one that ignores the tier, one that rounds
\* the mean up.
generate_feedback_alwaysBrief(plan_tier, sc) ==
    [content |-> "brief", score |-> (sc[1] + sc[2] + sc[3] + sc[4]) \div 4]
generate_feedback_roundsUp(plan_tier, sc) ==
    LET score == (sc[1] + sc[2] + sc[3] + sc[4] + 3) \div 4
    IN  IF plan_tier = "premium"
        THEN [content |-> "detailed", score |-> score,
              detailed_scores |-> [clarity |-> sc[1], confidence |-> sc[2],
                                   relevance |-> sc[3], structure |-> sc[4]],
              suggestions |-> 4]
        ELSE [content |-> "brief", score |-> score]

\* generate_feedback(session_data, user_response, plan_tier) with the four
\* random.randint draws given as sc = <<clarity, confidence, relevance, structure>>
generate_feedback(plan_tier, sc) ==
    LET score == (sc[1] + sc[2] + sc[3] + sc[4]) \div 4
    IN  IF plan_tier = "premium"
        THEN [content |-> "detailed", score |-> score,
              detailed_scores |-> [clarity |-> sc[1], confidence |-> sc[2],
                                   relevance |-> sc[3], structure |-> sc[4]],
              suggestions |-> 4]
        ELSE [content |-> "brief", score |-> score]

\* ----------------------------------------------------------------- session
\* The session dict start_interview builds (main.py:312-322).  The fields no
\* operation below reads (interview_type, created_at, resume_data,
\* job_description, company_culture) are left out; messages is its length.
NewSession(tier) ==
    [status |-> "setup", plan_tier |-> tier, end_time |-> NoTime,
     messages |-> 0, feedback_history |-> <<>>]

NoFeedback == [content |-> "none", score |-> -1]
NoEnv == [type |-> "none", tag |-> "none", fb |-> NoFeedback]
NoPending == [target |-> NoChan, env |-> NoEnv, cont |-> "none", ok |-> FALSE]

\* Outbound envelopes {type, data, timestamp}: tag abstracts data, fb is the
\* feedback dict of a feedback envelope; the timestamp is left out.
Envelope(type, tag) == [type |-> type, tag |-> tag, fb |-> NoFeedback]
FeedbackEnvelope(fb) == [type |-> "feedback", tag |-> "feedback", fb |-> fb]

TextKinds == {"invalid_json", "not_envelope", "control_start", "control_end",
              "transcript", "ignored"}

\* ------------------------------------------------------------------- Init
Init ==
    /\ now = 0
    /\ active_sessions = [s \in SessionIds |-> 0]
    /\ objs = <<>>
    /\ active_connections = [s \in SessionIds |-> NoChan]
    /\ connection_metadata = [s \in SessionIds |-> NoMeta]
    /\ rate_limit_storage = [k \in ClientIps |-> AbsentRecord]
    /\ pc = [c \in Channels |-> "init"]
    /\ ws_sid = [c \in Channels |-> NoSid]
    /\ ws_ip = [c \in Channels |-> "none"]
    /\ accepted = [c \in Channels |-> FALSE]
    /\ close_code = [c \in Channels |-> 0]
    /\ clientGone = [c \in Channels |-> FALSE]
    /\ outbox = [c \in Channels |-> <<>>]
    /\ pending = [c \in Channels |-> NoPending]
    /\ h_session = [c \in Channels |-> 0]
    /\ frames = [c \in Channels |-> 0]
    /\ cur = [c \in Channels |-> "none"]
    /\ http_resp = [op |-> "none", status |-> 0]
    /\ ticks = 0
    /\ rl_calls = 0
    /\ rl_last = [key |-> "none", type |-> "none", limit |-> 0, t |-> 0,
                  ok |-> FALSE]
    /\ admitted = [k \in ClientIps |-> [lt \in LimitTypes |-> <<>>]]


\* ---------------------------------------------------------- HTTP endpoints
\* `session_id in active_sessions`
session_known(sessions, sid) == sessions[sid] # 0

\* start_interview: sid is the value generate_session_id returns, a truncated
\* hash of the time and os.urandom(16): any value of the identifier space.
\* The record is stored under it without looking at the registry (main.py:324).
StartInterview(sid, tier) ==
    /\ objs' = Append(objs, NewSession(tier))
    /\ active_sessions' = [active_sessions EXCEPT ![sid] = Len(objs) + 1]
    /\ UNCHANGED <<now, ticks, registryVars, rlVars, wsVars, http_resp>>

\* The status mock_upgrade answers with.  For an unknown session the
\* HTTPException(404) is raised inside the try block, and `except Exception`
\* (main.py:610) catches it and raises HTTPException(500) in its place.
mock_upgrade_status(found) == IF found THEN 200 ELSE 500

MockUpgrade(sid) ==
    /\ objs' = IF session_known(active_sessions, sid)
               THEN [objs EXCEPT ![active_sessions[sid]].plan_tier = "premium"]
               ELSE objs
    /\ http_resp' = [op |-> "mock_upgrade",
                     status |-> mock_upgrade_status(
                                    session_known(active_sessions, sid))]
    /\ UNCHANGED <<now, ticks, active_sessions, registryVars, rlVars, wsVars>>

\* ------------------------------------------------------ websocket handler
\* A websocket can be written to while its client is there and its endpoint
\* has not returned (the framework closes it when the endpoint returns).
Writable(w) == accepted[w] /\ ~clientGone[w] /\ pc[w] # "done"

\* What follows a send_message that has returned (or was skipped because the
\* session has no binding), up to the next await that suspends.  conns is the
\* registry and os the session heap at that point.
Continue(c, cont, conns, os) ==
    CASE cont = "recv" ->
            /\ pc' = [pc EXCEPT ![c] = "recv"]
            /\ pending' = [pending EXCEPT ![c] = NoPending]
            /\ objs' = os
            /\ UNCHANGED outbox
      [] cont = "user_sent" ->          \* await asyncio.sleep(1)
            /\ pc' = [pc EXCEPT ![c] = "audio_sleep2"]
            /\ pending' = [pending EXCEPT ![c] = NoPending]
            /\ objs' = os
            /\ UNCHANGED outbox
      [] cont = "ai_sent" ->            \* main.py:539-549
            \E sc \in FBScoreSamples :
                LET fb == generate_feedback(os[h_session[c]].plan_tier, sc)
                    w == conns[ws_sid[c]]
                IN  IF w # NoChan
                    THEN /\ pc' = [pc EXCEPT ![c] = "sending"]
                         /\ pending' = [pending EXCEPT ![c] =
                                [target |-> w, env |-> FeedbackEnvelope(fb),
                                 cont |-> "fb_sent", ok |-> Writable(w)]]
                         /\ outbox' = IF Writable(w)
                                      THEN [outbox EXCEPT ![w] = Append(@,
                                              [env |-> FeedbackEnvelope(fb),
                                               by |-> c])]
                                      ELSE outbox
                         /\ objs' = os
                    ELSE /\ pc' = [pc EXCEPT ![c] = "recv"]
                         /\ pending' = [pending EXCEPT ![c] = NoPending]
                         /\ objs' = [os EXCEPT
                                ![h_session[c]].feedback_history = Append(@, fb)]
                         /\ UNCHANGED outbox
      [] cont = "fb_sent" ->            \* main.py:549
            /\ pc' = [pc EXCEPT ![c] = "recv"]
            /\ pending' = [pending EXCEPT ![c] = NoPending]
            /\ objs' = [os EXCEPT ![h_session[c]].feedback_history =
                                      Append(@, pending[c].env.fb)]
            /\ UNCHANGED outbox

\* manager.send_message(session_id, env) up to its await (main.py:112-114).
\* The websocket bound to the session id at this moment is the one written
\* to: the write is handed to it in call order, so it is delivered here when
\* the websocket can be written to, and send_text raises otherwise.  With no
\* binding nothing is sent and the caller goes on.
Emit(c, env, cont, conns, os) ==
    LET w == conns[ws_sid[c]]
    IN  IF w # NoChan
        THEN /\ pc' = [pc EXCEPT ![c] = "sending"]
             /\ pending' = [pending EXCEPT ![c] =
                    [target |-> w, env |-> env, cont |-> cont,
                     ok |-> Writable(w)]]
             /\ outbox' = IF Writable(w)
                          THEN [outbox EXCEPT ![w] =
                                   Append(@, [env |-> env, by |-> c])]
                          ELSE outbox
             /\ objs' = os
        ELSE Continue(c, cont, conns, os)

\* The finally block of websocket_endpoint (main.py:451-455).
Finally(c) ==
    LET sid == ws_sid[c]
        d == disconnect(active_connections, connection_metadata, sid)
    IN  /\ active_connections' = d.conns
        /\ connection_metadata' = d.meta
        /\ objs' = IF session_known(active_sessions, sid)
                   THEN [objs EXCEPT ![active_sessions[sid]].status = "completed",
                                     ![active_sessions[sid]].end_time = now]
                   ELSE objs
        /\ pc' = [pc EXCEPT ![c] = "done"]
        /\ pending' = [pending EXCEPT ![c] = NoPending]

\* Variant of Connect without the session check of main.py:397-399.
Connect_noCheck(c, sid, ip) ==
    /\ pc[c] = "init"
    /\ ws_sid' = [ws_sid EXCEPT ![c] = sid]
    /\ ws_ip' = [ws_ip EXCEPT ![c] = ip]
    /\ pc' = [pc EXCEPT ![c] = "accepting"]
    /\ UNCHANGED <<now, ticks, sessionVars, registryVars, rlVars, http_resp,
                   accepted, close_code, clientGone, outbox, pending,
                   h_session, frames, cur>>

\* A client opens /ws/{sid}: main.py:394-399.
Connect(c, sid, ip) ==
    /\ pc[c] = "init"
    /\ ws_sid' = [ws_sid EXCEPT ![c] = sid]
    /\ ws_ip' = [ws_ip EXCEPT ![c] = ip]
    /\ IF ~session_known(active_sessions, sid)
       THEN /\ close_code' = [close_code EXCEPT ![c] = NOT_FOUND_CODE]
            /\ pc' = [pc EXCEPT ![c] = "done"]
       ELSE /\ pc' = [pc EXCEPT ![c] = "accepting"]
            /\ UNCHANGED close_code
    /\ UNCHANGED <<now, ticks, sessionVars, registryVars, rlVars, http_resp,
                   accepted, clientGone, outbox, pending, h_session, frames, cur>>

\* Variant of Accept that goes to the receive loop without the welcome
\* send of main.py:408-412.
Accept_noWelcome(c) ==
    LET sid == ws_sid[c]
        conns == [active_connections EXCEPT ![sid] = c]
        meta == [connection_metadata EXCEPT ![sid] =
                    [client_ip |-> ws_ip[c], connected_at |-> now,
                     last_activity |-> now]]
    IN  /\ pc[c] = "accepting"
        /\ accepted' = [accepted EXCEPT ![c] = TRUE]
        /\ IF session_known(active_sessions, sid)
           THEN /\ active_connections' = conns
                /\ connection_metadata' = meta
                /\ objs' = [objs EXCEPT ![active_sessions[sid]].status = "active"]
                /\ pc' = [pc EXCEPT ![c] = "recv"]
                /\ UNCHANGED <<pending, outbox>>
           ELSE LET d == disconnect(conns, meta, sid)
                IN  /\ active_connections' = d.conns
                    /\ connection_metadata' = d.meta
                    /\ pc' = [pc EXCEPT ![c] = "done"]
                    /\ UNCHANGED <<objs, pending, outbox>>
        /\ UNCHANGED <<now, ticks, active_sessions, rlVars, http_resp, ws_sid,
                       ws_ip, close_code, clientGone, h_session, frames, cur>>

\* websocket.accept() returns: the rest of manager.connect, the status change
\* and the start of the welcome send (main.py:95-108, 403-412).
Accept(c) ==
    LET sid == ws_sid[c]
        conns == [active_connections EXCEPT ![sid] = c]
        meta == [connection_metadata EXCEPT ![sid] =
                    [client_ip |-> ws_ip[c], connected_at |-> now,
                     last_activity |-> now]]
    IN  /\ pc[c] = "accepting"
        /\ accepted' = [accepted EXCEPT ![c] = TRUE]
        /\ IF session_known(active_sessions, sid)
           THEN /\ active_connections' = conns
                /\ connection_metadata' = meta
                /\ objs' = [objs EXCEPT ![active_sessions[sid]].status = "active"]
                /\ pc' = [pc EXCEPT ![c] = "sending"]
                /\ pending' = [pending EXCEPT ![c] =
                        [target |-> c, env |-> Envelope("control", "connected"),
                         cont |-> "recv", ok |-> ~clientGone[c]]]
                /\ outbox' = IF ~clientGone[c]
                             THEN [outbox EXCEPT ![c] = Append(@,
                                     [env |-> Envelope("control", "connected"),
                                      by |-> c])]
                             ELSE outbox
           ELSE \* active_sessions[session_id] raises KeyError: finally
                LET d == disconnect(conns, meta, sid)
                IN  /\ active_connections' = d.conns
                    /\ connection_metadata' = d.meta
                    /\ pc' = [pc EXCEPT ![c] = "done"]
                    /\ UNCHANGED <<objs, pending, outbox>>
        /\ UNCHANGED <<now, ticks, active_sessions, rlVars, http_resp, ws_sid,
                       ws_ip, close_code, clientGone, h_session, frames, cur>>

\* send_text has returned: last_activity is updated (main.py:115-116).
SendOk(c) ==
    LET p == pending[c]
        sid == ws_sid[c]
    IN  /\ pc[c] = "sending"
        /\ p.ok
        /\ connection_metadata' =
               IF connection_metadata[sid] # NoMeta
               THEN [connection_metadata EXCEPT ![sid].last_activity = now]
               ELSE connection_metadata
        /\ Continue(c, p.cont, active_connections, objs)
        /\ UNCHANGED <<now, ticks, active_sessions, active_connections, rlVars,
                       http_resp, ws_sid, ws_ip, accepted, close_code,
                       clientGone, h_session, frames, cur>>

\* Variant of SendFail in which send_message lets the exception of
\* send_text through to the handler, whose `except Exception` ends the loop.
SendFail_propagates(c) ==
    /\ pc[c] = "sending"
    /\ ~pending[c].ok
    /\ Finally(c)
    /\ UNCHANGED <<now, ticks, active_sessions, rlVars, http_resp, ws_sid,
                   ws_ip, accepted, close_code, clientGone, outbox, h_session,
                   frames, cur>>

\* send_text has raised: send_message logs and calls
\* self.disconnect(session_id) (main.py:117-119).
SendFail(c) ==
    LET p == pending[c]
        sid == ws_sid[c]
        d == disconnect(active_connections, connection_metadata, sid)
    IN  /\ pc[c] = "sending"
        /\ ~p.ok
        /\ active_connections' = d.conns
        /\ connection_metadata' = d.meta
        /\ Continue(c, p.cont, d.conns, objs)
        /\ UNCHANGED <<now, ticks, active_sessions, rlVars, http_resp, ws_sid,
                       ws_ip, accepted, close_code, clientGone, h_session,
                       frames, cur>>

FramesSoFar == frames["c1"] + frames["c2"]

\* Variant of RecvText that leaves the receive loop on a malformed frame, as
\* if `except Exception` of main.py:443 caught it.
RecvText_breakOnMalformed(c, kind) ==
    LET sid == ws_sid[c]
        logged == IF session_known(active_sessions, sid)
                  THEN [objs EXCEPT ![active_sessions[sid]].messages = @ + 1]
                  ELSE objs
    IN  /\ pc[c] = "recv"
        /\ ~clientGone[c]
        /\ frames' = [frames EXCEPT ![c] = @ + 1]
        /\ cur' = [cur EXCEPT ![c] = kind]
        /\ CASE kind \in {"invalid_json", "not_envelope"} ->
                    Finally(c) /\ UNCHANGED outbox
             [] kind = "control_start" ->
                    /\ Emit(c, Envelope("control", "started"), "recv",
                            active_connections, objs)
                    /\ UNCHANGED registryVars
             [] kind = "control_end" ->
                    /\ Emit(c, Envelope("control", "ended"), "recv",
                            active_connections, objs)
                    /\ UNCHANGED registryVars
             [] kind = "transcript" ->
                    /\ Emit(c, Envelope("transcript", "ai"), "recv",
                            active_connections, logged)
                    /\ UNCHANGED registryVars
             [] kind = "ignored" ->
                    UNCHANGED <<pc, pending, objs, outbox, registryVars>>
        /\ UNCHANGED <<now, ticks, active_sessions, rlVars, http_resp, ws_sid,
                       ws_ip, accepted, close_code, clientGone, h_session>>

\* websocket.receive() returns a text frame (main.py:419-422, 436-442 and
\* handle_control_message, handle_user_message).  kind is what the text holds:
\*   invalid_json   json.loads raises JSONDecodeError
\*   not_envelope   JSON, but message.get / data.get raises AttributeError
\*   control_start, control_end   {"type": "control", "data": {"action": ...}}
\*   transcript     {"type": "transcript"} with text left after sanitize_input
\*   ignored        any other type or action, or an empty transcript text
RecvText(c, kind) ==
    LET sid == ws_sid[c]
        logged == IF session_known(active_sessions, sid)
                  THEN [objs EXCEPT ![active_sessions[sid]].messages = @ + 1]
                  ELSE objs
    IN  /\ pc[c] = "recv"
        /\ ~clientGone[c]
        /\ frames' = [frames EXCEPT ![c] = @ + 1]
        /\ cur' = [cur EXCEPT ![c] = kind]
        /\ CASE kind = "invalid_json" ->
                    Emit(c, Envelope("error", "Invalid message format"), "recv",
                         active_connections, objs)
             [] kind = "not_envelope" ->
                    Emit(c, Envelope("error", "Error processing message"),
                         "recv", active_connections, objs)
             [] kind = "control_start" ->
                    Emit(c, Envelope("control", "started"), "recv",
                         active_connections, objs)
             [] kind = "control_end" ->
                    Emit(c, Envelope("control", "ended"), "recv",
                         active_connections, objs)
             [] kind = "transcript" ->
                    Emit(c, Envelope("transcript", "ai"), "recv",
                         active_connections, logged)
             [] kind = "ignored" ->
                    UNCHANGED <<pc, pending, objs, outbox>>
        /\ UNCHANGED <<now, ticks, active_sessions, registryVars, rlVars,
                       http_resp, ws_sid, ws_ip, accepted, close_code,
                       clientGone, h_session>>

\* websocket.receive() returns a binary frame (main.py:423-434 and the start
\* of handle_audio_data up to its first sleep).
RecvBytes(c) ==
    LET r == check_rate_limit(rate_limit_storage, ws_ip[c], "audio_chunks",
                              AUDIO_CHUNKS_PER_MINUTE, now)
    IN  /\ pc[c] = "recv"
        /\ ~clientGone[c]
        /\ frames' = [frames EXCEPT ![c] = @ + 1]
        /\ cur' = [cur EXCEPT ![c] = "bytes"]
        /\ RateLimitCall(ws_ip[c], "audio_chunks", AUDIO_CHUNKS_PER_MINUTE)
        /\ IF ~r.ok
           THEN /\ Emit(c, Envelope("error", "Rate limit exceeded for audio"),
                        "recv", active_connections, objs)
                /\ UNCHANGED h_session
           ELSE /\ h_session' = [h_session EXCEPT ![c] = active_sessions[ws_sid[c]]]
                /\ pc' = [pc EXCEPT ![c] = "audio_sleep1"]
                /\ UNCHANGED <<pending, objs, outbox>>
        /\ UNCHANGED <<now, ticks, active_sessions, registryVars, http_resp,
                       ws_sid, ws_ip, accepted, close_code, clientGone>>

\* asyncio.sleep(0.5) returns: the user transcript is sent (main.py:501-523).
AudioSleep1(c) ==
    /\ pc[c] = "audio_sleep1"
    /\ Emit(c, Envelope("transcript", "user"), "user_sent",
            active_connections, objs)
    /\ UNCHANGED <<now, ticks, active_sessions, registryVars, rlVars, http_resp,
                   ws_sid, ws_ip, accepted, close_code, clientGone, h_session,
                   frames, cur>>

\* Variant of AudioSleep2 that goes on to the feedback without sending the
\* AI transcript.
AudioSleep2_noAi(c) ==
    /\ pc[c] = "audio_sleep2"
    /\ Continue(c, "ai_sent", active_connections, objs)
    /\ UNCHANGED <<now, ticks, active_sessions, registryVars, rlVars, http_resp,
                   ws_sid, ws_ip, accepted, close_code, clientGone, h_session,
                   frames, cur>>

\* asyncio.sleep(1) returns: the AI transcript is sent (main.py:526-536).
AudioSleep2(c) ==
    /\ pc[c] = "audio_sleep2"
    /\ Emit(c, Envelope("transcript", "ai"), "ai_sent",
            active_connections, objs)
    /\ UNCHANGED <<now, ticks, active_sessions, registryVars, rlVars, http_resp,
                   ws_sid, ws_ip, accepted, close_code, clientGone, h_session,
                   frames, cur>>

\* The client of an accepted websocket goes away.
ClientDisconnect(c) ==
    /\ accepted[c] /\ ~clientGone[c] /\ pc[c] # "done"
    /\ clientGone' = [clientGone EXCEPT ![c] = TRUE]
    /\ UNCHANGED <<now, ticks, sessionVars, registryVars, rlVars, http_resp,
                   pc, ws_sid, ws_ip, accepted, close_code, outbox, pending,
                   h_session, frames, cur>>

\* websocket.receive() returns {"type": "websocket.disconnect"}: neither
\* branch of main.py:418 applies and the loop receives again.
RecvDisconnect(c) ==
    /\ pc[c] = "recv"
    /\ clientGone[c]
    /\ pc' = [pc EXCEPT ![c] = "recv_closed"]
    /\ UNCHANGED <<now, ticks, sessionVars, registryVars, rlVars, http_resp,
                   ws_sid, ws_ip, accepted, close_code, clientGone, outbox,
                   pending, h_session, frames, cur>>

\* websocket.receive() after the disconnect message raises: `except
\* Exception` breaks out of the loop (main.py:443-445) and finally runs.
RecvRaise(c) ==
    /\ pc[c] = "recv_closed"
    /\ Finally(c)
    /\ UNCHANGED <<now, ticks, active_sessions, rlVars, http_resp, ws_sid,
                   ws_ip, accepted, close_code, clientGone, outbox, h_session,
                   frames, cur>>

\* ---------------------------------------------------------- specification
Step(c) ==
    \/ Accept(c)
    \/ SendOk(c)
    \/ SendFail(c)
    \/ AudioSleep1(c)
    \/ AudioSleep2(c)
    \/ RecvDisconnect(c)
    \/ RecvRaise(c)

\* The server: every endpoint and every websocket task, all within one
\* reading of the clock.  Identifiers and websockets are named in order of
\* first use (the first identifier generated is called "s1", the first
\* websocket opened "c1").
Next ==
    \/ \E sid \in SessionIds, tier \in PlanTiers :
          /\ Len(objs) < MaxObjs
          /\ Len(objs) = 0 => sid = "s1"
          /\ StartInterview(sid, tier)
    \/ \E sid \in SessionIds : MockUpgrade(sid)
    \/ \E c \in Channels, sid \in SessionIds, ip \in WsClientIps :
          /\ c = "c2" => pc["c1"] # "init"
          /\ Connect(c, sid, ip)
    \/ \E c \in Channels, kind \in TextKinds :
          FramesSoFar < MaxFrames /\ RecvText(c, kind)
    \/ \E c \in Channels :
          FramesSoFar < MaxFrames /\ RecvBytes(c)
    \/ \E c \in Channels : ClientDisconnect(c)
    \/ \E c \in Channels : Step(c)

Spec == Init /\ [][Next]_vars

\* The sessions and the websocket tasks without mock_upgrade, whose only
\* effects (plan_tier, its own response) no websocket task branches on.
NextLive ==
    \/ \E sid \in SessionIds, tier \in PlanTiers :
          /\ Len(objs) < MaxObjs
          /\ Len(objs) = 0 => sid = "s1"
          /\ StartInterview(sid, tier)
    \/ \E c \in Channels, sid \in SessionIds, ip \in WsClientIps :
          /\ c = "c2" => pc["c1"] # "init"
          /\ Connect(c, sid, ip)
    \/ \E c \in Channels, kind \in TextKinds :
          FramesSoFar < MaxFrames /\ RecvText(c, kind)
    \/ \E c \in Channels :
          FramesSoFar < MaxFrames /\ RecvBytes(c)
    \/ \E c \in Channels : ClientDisconnect(c)
    \/ \E c \in Channels : Step(c)

\* The event loop runs every task that can run: a handler's pending await
\* (accept, send, sleep, receive after a disconnect) eventually returns.
FairSpec ==
    Init /\ [][NextLive]_vars /\ \A c \in Channels : WF_vars(Step(c))

\* -------------------------------------------- rate limiter specification
\* check_rate_limit alone, called with every key, limit type and limit.
RLCheck(k, lt, limit) ==
    /\ rl_calls < MaxCalls
    /\ RateLimitCall(k, lt, limit)
    /\ UNCHANGED <<now, ticks, sessionVars, registryVars, wsVars, http_resp>>

\* time.time() advances.
Tick ==
    /\ ticks < MaxTicks
    /\ ticks' = ticks + 1
    /\ now' = now + TickLen
    /\ UNCHANGED <<sessionVars, registryVars, rlVars, wsVars, http_resp>>

NextRL ==
    \/ \E k \in ClientIps, lt \in LimitTypes, limit \in 0..MaxLimit :
          RLCheck(k, lt, limit)
    \/ Tick

SpecRL == Init /\ [][NextRL]_vars

\* ------------------------------------------ single-websocket specification
\* One websocket on a session that start_interview has already registered
\* under "s1", its frames one after the other, mock_upgrade and the clock.
ChanChannels == {"c1"}

InitChan ==
    /\ now = 0
    /\ \E tier \in PlanTiers : objs = <<NewSession(tier)>>
    /\ active_sessions = [s \in SessionIds |-> IF s = "s1" THEN 1 ELSE 0]
    /\ active_connections = [s \in SessionIds |-> NoChan]
    /\ connection_metadata = [s \in SessionIds |-> NoMeta]
    /\ rate_limit_storage = [k \in ClientIps |-> AbsentRecord]
    /\ pc = [c \in Channels |-> "init"]
    /\ ws_sid = [c \in Channels |-> NoSid]
    /\ ws_ip = [c \in Channels |-> "none"]
    /\ accepted = [c \in Channels |-> FALSE]
    /\ close_code = [c \in Channels |-> 0]
    /\ clientGone = [c \in Channels |-> FALSE]
    /\ outbox = [c \in Channels |-> <<>>]
    /\ pending = [c \in Channels |-> NoPending]
    /\ h_session = [c \in Channels |-> 0]
    /\ frames = [c \in Channels |-> 0]
    /\ cur = [c \in Channels |-> "none"]
    /\ http_resp = [op |-> "none", status |-> 0]
    /\ ticks = 0
    /\ rl_calls = 0
    /\ rl_last = [key |-> "none", type |-> "none", limit |-> 0, t |-> 0,
                  ok |-> FALSE]
    /\ admitted = [k \in ClientIps |-> [lt \in LimitTypes |-> <<>>]]

NextChan ==
    \/ \E c \in ChanChannels, ip \in WsClientIps : Connect(c, "s1", ip)
    \/ \E c \in ChanChannels, kind \in TextKinds :
          FramesSoFar < MaxChanFrames /\ RecvText(c, kind)
    \/ \E c \in ChanChannels :
          FramesSoFar < MaxChanFrames /\ RecvBytes(c)
    \/ \E c \in ChanChannels : ClientDisconnect(c)
    \/ \E c \in ChanChannels : Step(c)
    \/ MockUpgrade("s1")
    \/ Tick

SpecChan == InitChan /\ [][NextChan]_vars

\* ---------------------------------------------------- upload specification
PDF == "application/pdf"
DOCX == "application/vnd.openxmlformats-officedocument.wordprocessingml.document"
PLAIN == "text/plain"
allowed_types == {PDF, DOCX, PLAIN}
ContentTypes == allowed_types \cup {"image/png"}

\* The uploads tried: the declared content type, the number of bytes, whether
\* the bytes parse in the declared format (PdfReader, docx.Document and
\* bytes.decode('utf-8') do not raise) and the length of the text that
\* sanitize_input returns for them.
UploadSizes == {0, 1, 2001, MAX_UPLOAD_BYTES - 1, MAX_UPLOAD_BYTES,
                MAX_UPLOAD_BYTES + 1, 2 * MAX_UPLOAD_BYTES}
UploadTextLens == {0, 1, EXTRACT_LIMIT - 1, EXTRACT_LIMIT, EXTRACT_LIMIT + 1,
                   2 * EXTRACT_LIMIT}
PossibleUpload(ct, size, parses, tlen) ==
    /\ ~parses => tlen = 0
    /\ ct \notin allowed_types => (~parses /\ tlen = 0)
    /\ ct = PLAIN => tlen <= size
    /\ (ct \in {PDF, DOCX} /\ size = 0) => ~parses
    /\ (ct = PLAIN /\ size = 0) => parses

Min(a, b) == IF a <= b THEN a ELSE b

UploadError(status, detail) ==
    [status |-> status, detail |-> detail, extracted |-> 0]

\* extract_text_from_pdf and extract_text_from_docx: any exception of the
\* parser becomes HTTPException(400).
extract_text(ct, parses, tlen) ==
    IF parses THEN [status |-> 200, detail |-> "ok", extracted |-> tlen]
    ELSE IF ct = PDF THEN UploadError(400, "Failed to process PDF file")
    ELSE UploadError(400, "Failed to process DOCX file")

\* upload_document: the response for an upload.  An HTTPException raised in
\* the try block is re-raised as it is; the UnicodeDecodeError of
\* file_content.decode('utf-8') is not one and reaches `except Exception`.
upload_document(ct, size, parses, tlen) ==
    IF ct \notin allowed_types
    THEN UploadError(400, "Unsupported file type")
    ELSE IF size > MAX_UPLOAD_BYTES
    THEN UploadError(400, "File too large")
    ELSE LET ex == IF ct \in {PDF, DOCX}
                   THEN extract_text(ct, parses, tlen)
                   ELSE IF parses
                        THEN [status |-> 200, detail |-> "ok",
                              extracted |-> tlen]
                        ELSE UploadError(500, "Error processing document")
         IN  IF ex.status = 200
             THEN [ex EXCEPT !.extracted = Min(@, EXTRACT_LIMIT)]
             ELSE ex

\* POST /upload_document: http_resp keeps the upload next to its response.
UploadDocument(ct, size, parses, tlen) ==
    LET resp == upload_document(ct, size, parses, tlen)
    IN  /\ http_resp' = [op |-> "upload_document", status |-> resp.status,
                         detail |-> resp.detail, extracted |-> resp.extracted,
                         upload |-> [content_type |-> ct, size |-> size,
                                     parses |-> parses, text_len |-> tlen]]
        /\ UNCHANGED <<now, ticks, sessionVars, registryVars, rlVars, wsVars>>

NextUpload ==
    \E ct \in ContentTypes, size \in UploadSizes, parses \in BOOLEAN,
       tlen \in UploadTextLens :
        PossibleUpload(ct, size, parses, tlen)
        /\ UploadDocument(ct, size, parses, tlen)

SpecUpload == Init /\ [][NextUpload]_vars

\* ------------------------------------------------------------------ claims
\* The status of the session registered under sid (sid must be registered).
SessionOf(sid) == objs[active_sessions[sid]]

\* C1: a session record whose status has become "completed" never has
\* another status again, whatever endpoint or websocket event comes next.
C1_Claim ==
    [][\A o \in 1..Len(objs) :
          objs[o].status = "completed" => objs'[o].status = "completed"]_vars

\* C2: when a handler has finished processing a control frame with action
\* "end_interview" on an active session, that session's status is "completed".
C2_Claim ==
    [][\A c \in Channels :
          ( /\ cur'[c] = "control_end"
            /\ pc'[c] = "recv"
            /\ (pc[c] = "sending" \/ frames'[c] # frames[c])
            /\ SessionOf(ws_sid[c]).status = "active" )
          => SessionOf(ws_sid[c])'.status = "completed"]_vars

\* C3: once the client of an accepted websocket has disconnected its handler
\* eventually ends, and in the step that ends it the session's status is
\* "completed", its end_time is set and the registry holds neither a binding
\* nor metadata for the session identifier.
C3_Thm ==
    /\ \A c \in Channels : clientGone[c] ~> (pc[c] = "done")
    /\ [][\A c \in Channels :
             (accepted[c] /\ pc[c] # "done" /\ pc'[c] = "done")
             => /\ SessionOf(ws_sid[c])'.status = "completed"
                /\ SessionOf(ws_sid[c])'.end_time # NoTime
                /\ active_connections'[ws_sid[c]] = NoChan
                /\ connection_metadata'[ws_sid[c]] = NoMeta]_vars

C3_Witness ==
    \E c \in Channels :
        /\ accepted[c] /\ clientGone[c] /\ pc[c] = "done"
        /\ SessionOf(ws_sid[c]).status = "completed"

\* C4: for each session identifier at most one accepted websocket has a
\* handler that is still running.
C4_Claim ==
    \A s \in SessionIds :
        Cardinality({c \in Channels :
            accepted[c] /\ pc[c] # "done" /\ ws_sid[c] = s}) <= 1

\* C5: mock_upgrade for an identifier that is not registered answers 404 and
\* changes no session, binding or rate-limit record.
C5_Claim ==
    [][\A sid \in SessionIds :
          (MockUpgrade(sid) /\ ~session_known(active_sessions, sid))
          => /\ http_resp'.status = 404
             /\ UNCHANGED <<sessionVars, registryVars, rate_limit_storage>>]_vars

\* C6: a websocket opened with an identifier that is not registered is closed
\* with code 4004 in the step that handles it: the handler ends, the
\* websocket is not accepted, nothing is sent on any websocket, and no
\* binding, metadata or session is created or changed.
C6_Thm ==
    [][\A c \in Channels :
          ( /\ pc[c] = "init" /\ pc'[c] # "init"
            /\ ~session_known(active_sessions, ws_sid'[c]) )
          => /\ pc'[c] = "done"
             /\ close_code'[c] = NOT_FOUND_CODE
             /\ ~accepted'[c]
             /\ UNCHANGED <<outbox, pending, sessionVars, registryVars>>]_vars

C6_Witness ==
    \E c \in Channels :
        /\ pc[c] = "done" /\ close_code[c] = NOT_FOUND_CODE /\ ~accepted[c]
        /\ ~session_known(active_sessions, ws_sid[c])
        /\ Len(objs) > 0

\* The admitted calls of (k, lt) with a timestamp later than t - 60.
AdmittedInWindow(k, lt, t) ==
    {i \in 1..Len(admitted[k][lt]) : admitted[k][lt][i] > t - WINDOW}

\* C7: for a limit N >= 1, check_rate_limit(key, type, N) at time t returns
\* true exactly when fewer than N previously admitted calls of the same key
\* and type have a timestamp later than t - 60.
C7_Thm ==
    [][(rl_calls' # rl_calls /\ rl_last'.limit >= 1)
       => (rl_last'.ok <=>
             Cardinality(AdmittedInWindow(rl_last'.key, rl_last'.type, now))
                < rl_last'.limit)]_vars

\* A call admitted again although the key and type already have more
\* admissions than the limit: the older ones have left the window.
C7_Witness ==
    /\ rl_calls > 0 /\ rl_last.ok /\ rl_last.limit >= 1
    /\ Len(admitted[rl_last.key][rl_last.type]) > rl_last.limit

\* C8: a call of check_rate_limit that returns false leaves the rate-limit
\* storage as it was, for every key, type and limit (0 included).
C8_Claim ==
    [][(rl_calls' # rl_calls /\ ~rl_last'.ok)
       => rate_limit_storage' = rate_limit_storage]_vars

\* C9 as stated: in every state every stored timestamp is less than 60
\* seconds older than the current time.
C9_Claim ==
    \A k \in ClientIps, lt \in LimitTypes :
        \A i \in 1..Len(rate_limit_storage[k][lt]) :
            rate_limit_storage[k][lt][i] > now - WINDOW

\* C9 amended: right after a check_rate_limit call every timestamp stored for
\* the key and type of that call is less than 60 seconds older than the time
\* of the call.
C9_Thm ==
    [][rl_calls' # rl_calls
       => \A i \in 1..Len(rate_limit_storage'[rl_last'.key][rl_last'.type]) :
             rate_limit_storage'[rl_last'.key][rl_last'.type][i]
                > now - WINDOW]_vars

\* A call has just dropped timestamps that had left the window.
C9_Witness ==
    /\ rl_calls > 0 /\ rl_last.t = now
    /\ Len(rate_limit_storage[rl_last.key][rl_last.type])
          < Len(admitted[rl_last.key][rl_last.type])

\* C10: the identifier start_interview returns is not yet registered, so the
\* call overwrites no session.
C10_Claim ==
    [][\A sid \in SessionIds, tier \in PlanTiers :
          StartInterview(sid, tier) => ~session_known(active_sessions, sid)]_vars

\* The welcome envelope as the websocket c receives it from its own handler.
Welcome(c) == [env |-> Envelope("control", "connected"), by |-> c]

\* C11: the first envelope delivered on every accepted websocket is the
\* control envelope "connected" sent by its own handler: no transcript,
\* feedback or error envelope precedes it, also when the handler of another
\* websocket of the same session is processing frames at the same time.
C11_Thm ==
    \A c \in Channels :
        /\ Len(outbox[c]) > 0 => outbox[c][1] = Welcome(c)
        /\ (accepted[c] /\ pc[c] \in {"recv", "audio_sleep1", "audio_sleep2"}
              /\ session_known(active_sessions, ws_sid[c]))
             => Len(outbox[c]) > 0

\* A websocket received its welcome and then an envelope that the handler
\* of the other websocket of the same session produced for a frame.
C11_Witness ==
    \E c, d \in Channels :
        /\ c # d
        /\ ws_sid[c] = ws_sid[d]
        /\ Len(outbox[d]) >= 2
        /\ outbox[d][1] = Welcome(d)
        /\ outbox[d][2].by = c

\* The text frames json.loads or the envelope accessors reject, and the
\* error envelope each is answered with (main.py:436-442, 487-491).
Malformed == {"invalid_json", "not_envelope"}
ErrorFor(kind) ==
    IF kind = "invalid_json" THEN Envelope("error", "Invalid message format")
    ELSE Envelope("error", "Error processing message")

CallsSend(c) ==
    \/ frames'[c] = frames[c] + 1 /\ cur'[c] \in TextKinds \ {"ignored"}
    \/ pc[c] = "audio_sleep1" /\ pc'[c] # "audio_sleep1"
    \/ pc[c] = "audio_sleep2" /\ pc'[c] # "audio_sleep2"

\* C13: when the write of a send_message fails, no exception reaches the
\* handler (it goes on with what follows the send) and afterwards the
\* session has neither a binding nor metadata; a send_message for a session
\* without a binding writes to no websocket and leaves the registry as it is.
C13_Thm ==
    [][\A c \in Channels :
         /\ (pc[c] = "sending" /\ ~pending[c].ok /\ pending'[c] # pending[c])
              => /\ active_connections'[ws_sid[c]] = NoChan
                 /\ connection_metadata'[ws_sid[c]] = NoMeta
                 /\ pc'[c] \in {"recv", "audio_sleep2"}
         /\ (CallsSend(c) /\ active_connections[ws_sid[c]] = NoChan)
              => /\ outbox' = outbox
                 /\ pc'[c] # "sending"
                 /\ UNCHANGED <<active_connections, connection_metadata>>
      ]_vars

\* The only websocket ever opened lost its client while the handler slept:
\* the send of the user transcript failed, the binding and the metadata
\* are gone and the handler is in its second sleep.
C13_Witness ==
    \E c, d \in Channels :
        /\ c # d /\ pc[d] = "init"
        /\ pc[c] = "audio_sleep2" /\ clientGone[c]
        /\ outbox[c] = <<Welcome(c)>>
        /\ active_connections[ws_sid[c]] = NoChan
        /\ connection_metadata[ws_sid[c]] = NoMeta

\* C14: text frames are general requests: each is passed to the rate
\* limiter under the category "requests" with REQUESTS_PER_MINUTE, and once
\* a client has made REQUESTS_PER_MINUTE of them within one reading of the
\* clock the next one is denied.
C14_Claim ==
    [][\A c \in Channels :
         (frames'[c] = frames[c] + 1 /\ cur'[c] \in TextKinds)
            => /\ rl_calls' = rl_calls + 1
               /\ rl_last'.key = ws_ip[c]
               /\ rl_last'.type = "requests"
               /\ rl_last'.limit = REQUESTS_PER_MINUTE
               /\ (frames[c] = REQUESTS_PER_MINUTE /\ cur[c] \in TextKinds
                     /\ ticks = 0)
                    => ~rl_last'.ok
      ]_vars

\* C15: a check_rate_limit call for a key and a category, admitted or
\* denied, leaves the stored timestamps of every other category of that key
\* and every record of every other key as they were, and with them the
\* outcome of the next check of each of those pairs.
C15_Thm ==
    [][rl_calls' = rl_calls + 1 =>
         \A k \in ClientIps :
            /\ k # rl_last'.key => rate_limit_storage'[k] = rate_limit_storage[k]
            /\ \A lt \in LimitTypes :
                  (k # rl_last'.key \/ lt # rl_last'.type) =>
                     /\ rate_limit_storage'[k][lt] = rate_limit_storage[k][lt]
                     /\ \A limit \in 0..MaxLimit :
                           check_rate_limit(rate_limit_storage', k, lt,
                                            limit, now').ok
                           = check_rate_limit(rate_limit_storage, k, lt,
                                              limit, now).ok
      ]_vars

\* A call was just admitted while the other category of its key and the
\* same category of another key hold timestamps.
C15_Witness ==
    /\ rl_calls >= 3
    /\ rl_last.ok
    /\ \E lt \in LimitTypes \ {rl_last.type} :
          rate_limit_storage[rl_last.key][lt] # <<>>
    /\ \E k \in ClientIps \ {rl_last.key} :
          rate_limit_storage[k][rl_last.type] # <<>>

\* C16: an upload of more than 5 MB is answered with the size rejection
\* "File too large", whatever content type it declares, supported or not.
C16_Claim ==
    (http_resp.op = "upload_document"
       /\ http_resp.upload.size > MAX_UPLOAD_BYTES)
      => http_resp.detail = "File too large"

\* C17: an upload that declares an unsupported content type, is larger than
\* 5 MB or does not parse in its declared format (PDF, Word, plain text) is
\* answered with a client error, a status from 400 to 499.
C17_Claim ==
    (http_resp.op = "upload_document"
       /\ \/ http_resp.upload.content_type \notin allowed_types
          \/ http_resp.upload.size > MAX_UPLOAD_BYTES
          \/ ~http_resp.upload.parses)
      => http_resp.status \in 400..499

\* The two forms of a feedback record.
Detailed(fb) == DOMAIN fb = {"content", "score", "detailed_scores", "suggestions"}
Brief(fb) == DOMAIN fb = {"content", "score"}

\* The handler of c generates a feedback record in this step: it starts to
\* send it, or (the session has no binding) appends it at once.
GeneratesFeedback(c) ==
    \/ pending'[c].env.type = "feedback" /\ pending[c].env.type # "feedback"
    \/ /\ pc'[c] = "recv"
       /\ \/ pc[c] = "audio_sleep2"
          \/ pc[c] = "sending" /\ pending[c].cont = "ai_sent"
GeneratedFeedback(c) ==
    IF pending'[c].env.type = "feedback" THEN pending'[c].env.fb
    ELSE LET h == objs'[h_session[c]].feedback_history IN h[Len(h)]

\* C18: a feedback record is of the detailed form (sub-score breakdown and
\* suggestions) exactly when the plan tier of the session record it is
\* generated for is "premium" at that moment, and has only content and score
\* otherwise; a successful mock_upgrade makes the record premium and a
\* premium record stays premium, so every feedback generated for it
\* afterwards is detailed.
C18_Thm ==
    [][/\ \A c \in Channels :
            GeneratesFeedback(c) =>
               IF objs[h_session[c]].plan_tier = "premium"
               THEN Detailed(GeneratedFeedback(c))
               ELSE Brief(GeneratedFeedback(c))
       /\ \A o \in 1..Len(objs) :
            objs[o].plan_tier = "premium" => objs'[o].plan_tier = "premium"
       /\ \A sid \in SessionIds :
            (MockUpgrade(sid) /\ http_resp'.status = 200)
               => SessionOf(sid)'.plan_tier = "premium"
      ]_vars

\* A session created free got a brief feedback, was upgraded, and its next
\* feedback is detailed.
C18_Witness ==
    /\ http_resp = [op |-> "mock_upgrade", status |-> 200]
    /\ \E o \in 1..Len(objs) :
          /\ Len(objs[o].feedback_history) = 2
          /\ Brief(objs[o].feedback_history[1])
          /\ Detailed(objs[o].feedback_history[2])

\* Every feedback record there is: stored in a history, being sent, or
\* delivered in an envelope.
AllFeedback ==
    UNION {{objs[o].feedback_history[i] :
                i \in 1..Len(objs[o].feedback_history)} : o \in 1..Len(objs)}
    \cup {pending[c].env.fb : c \in {d \in Channels :
                                        pending[d].env.type = "feedback"}}
    \cup UNION {{outbox[c][i].env.fb :
                    i \in {j \in 1..Len(outbox[c]) :
                              outbox[c][j].env.type = "feedback"}} :
                c \in Channels}
SubScoreSum(fb) ==
    fb.detailed_scores.clarity + fb.detailed_scores.confidence
    + fb.detailed_scores.relevance + fb.detailed_scores.structure

\* C19: every feedback record, generated or stored in a history, has an
\* integer score from 60 to 92 (hence within 0..100), and the score of a
\* detailed record is the floor of the mean of the four sub-scores it
\* reports.
C19_Thm ==
    \A fb \in AllFeedback :
        /\ fb.score \in 60..92
        /\ Detailed(fb) => /\ 4 * fb.score <= SubScoreSum(fb)
                           /\ SubScoreSum(fb) < 4 * fb.score + 4

\* A history holds a detailed record whose mean is not an integer, with the
\* highest score, and a record with the lowest score is being sent.
C19_Witness ==
    /\ \E fb \in AllFeedback :
          Detailed(fb) /\ fb.score = 92 /\ SubScoreSum(fb) = 370
    /\ \E fb \in AllFeedback : Detailed(fb) /\ SubScoreSum(fb) = 335
    /\ \E c \in Channels : /\ pending[c].env.type = "feedback"
                            /\ pending[c].env.fb.score = 60

\* The envelopes the handler of c has delivered on its own websocket.
Mine(c) == SelectSeq(outbox[c], LAMBDA e : e.by = c)
IsUser(e) == e.env = Envelope("transcript", "user")
IsAi(e) == e.env = Envelope("transcript", "ai")
IsFeedback(e) == e.env.type = "feedback"

\* In what a handler delivers, a user transcript is followed at once by an
\* AI transcript and that by a feedback envelope, and a feedback envelope
\* comes only as the third of such a group.
TriplesInOrder(m) ==
    \A i \in 1..Len(m) :
        /\ IsUser(m[i]) => /\ i + 1 <= Len(m) => IsAi(m[i + 1])
                           /\ i + 2 <= Len(m) => IsFeedback(m[i + 2])
        /\ IsFeedback(m[i]) => /\ i >= 3
                               /\ IsAi(m[i - 1])
                               /\ IsUser(m[i - 2])

\* The send of the feedback envelope returns on a websocket still bound.
FeedbackSent(c) ==
    /\ pc[c] = "sending" /\ pc'[c] # "sending"
    /\ pending[c].cont = "fb_sent" /\ pending[c].ok
    /\ active_connections[ws_sid[c]] = c

\* C20: for an admitted binary frame on a websocket that stays bound the
\* handler delivers exactly a user transcript, an AI transcript and a
\* feedback envelope, in this order, and once the send of the feedback has
\* returned it appends that one feedback record to the history of the
\* session; a history grows in no other way while the session is bound, and
\* the triples of the frames of one websocket follow one another whole.
C20_Thm ==
    /\ [](\A c \in Channels :
            /\ TriplesInOrder(Mine(c))
            /\ (rl_calls = 1 /\ rl_last.ok /\ frames[c] = 1
                  /\ cur[c] = "bytes" /\ pc[c] = "recv"
                  /\ active_connections[ws_sid[c]] = c)
                 => /\ Len(Mine(c)) = 4
                    /\ Mine(c)[1] = Welcome(c)
                    /\ IsUser(Mine(c)[2])
                    /\ IsAi(Mine(c)[3])
                    /\ IsFeedback(Mine(c)[4])
                    /\ objs[h_session[c]].feedback_history
                          = <<Mine(c)[4].env.fb>>)
    /\ [][/\ \A c \in Channels :
              FeedbackSent(c) =>
                 LET m == Mine(c)
                     n == Len(m)
                     h == h_session[c]
                 IN  /\ n >= 4
                     /\ IsUser(m[n - 2])
                     /\ IsAi(m[n - 1])
                     /\ m[n].env = pending[c].env
                     /\ pc'[c] = "recv"
                     /\ outbox' = outbox
                     /\ objs'[h].feedback_history
                           = Append(objs[h].feedback_history,
                                    pending[c].env.fb)
          /\ \A o \in 1..Len(objs) :
               objs'[o].feedback_history # objs[o].feedback_history =>
                  \E c \in Channels :
                     /\ h_session[c] = o
                     /\ pc'[c] = "recv"
                     /\ \/ /\ pc[c] = "sending"
                           /\ pending[c].cont = "fb_sent"
                           /\ objs'[o].feedback_history
                                 = Append(objs[o].feedback_history,
                                          pending[c].env.fb)
                        \/ /\ GeneratesFeedback(c)
                           /\ active_connections'[ws_sid[c]] = NoChan
                           /\ objs'[o].feedback_history
                                 = Append(objs[o].feedback_history,
                                          GeneratedFeedback(c))
         ]_vars

\* Two binary frames of one websocket were admitted and answered: two whole
\* triples after the welcome, and two records in the history.
C20_Witness ==
    \E c \in Channels :
        /\ pc[c] = "recv" /\ active_connections[ws_sid[c]] = c
        /\ Len(outbox[c]) = 7
        /\ IsUser(outbox[c][2]) /\ IsAi(outbox[c][3])
        /\ IsFeedback(outbox[c][4])
        /\ IsUser(outbox[c][5]) /\ IsAi(outbox[c][6])
        /\ IsFeedback(outbox[c][7])
        /\ objs[h_session[c]].feedback_history
              = <<outbox[c][4].env.fb, outbox[c][7].env.fb>>

\* The handler of c receives a binary frame that the rate limiter denies.
DeniedFrame(c) ==
    /\ frames'[c] = frames[c] + 1
    /\ cur'[c] = "bytes"
    /\ rl_calls' = rl_calls + 1
    /\ ~rl_last'.ok
RateLimitError == Envelope("error", "Rate limit exceeded for audio")
Elems(seq) == {seq[i] : i \in 1..Len(seq)}

\* C21: a binary frame the rate limiter denies is answered with one error
\* envelope and nothing else: no session record changes (no feedback is
\* appended, the status stays as it is), the window of the client gains no
\* timestamp, the registry is untouched, and when the send of the error
\* envelope returns the handler is receiving again.
C21_Thm ==
    [][\A c \in Channels :
         /\ DeniedFrame(c) =>
              /\ objs' = objs
              /\ UNCHANGED <<active_connections, connection_metadata>>
              /\ \A k \in ClientIps, lt \in LimitTypes :
                    /\ Len(rate_limit_storage'[k][lt])
                          <= Len(rate_limit_storage[k][lt])
                    /\ Elems(rate_limit_storage'[k][lt])
                          \subseteq Elems(rate_limit_storage[k][lt])
              /\ admitted' = admitted
              /\ pc'[c] \in {"sending", "recv"}
              /\ active_connections[ws_sid[c]] = c =>
                    /\ outbox' = [outbox EXCEPT ![c] =
                                     Append(@, [env |-> RateLimitError,
                                                by |-> c])]
                    /\ pc'[c] = "sending"
                    /\ pending'[c].cont = "recv"
              /\ active_connections[ws_sid[c]] = NoChan => outbox' = outbox
         /\ (pc[c] = "sending" /\ pc'[c] # "sending"
               /\ pending[c].env = RateLimitError /\ pending[c].ok)
              => /\ pc'[c] = "recv"
                 /\ outbox' = outbox
                 /\ UNCHANGED <<active_connections, objs>>
      ]_vars

\* After a denied binary frame and its error envelope, a later binary frame
\* of the same websocket was admitted and its user transcript delivered,
\* the session still active.
C21_Witness ==
    \E c \in Channels :
        \E i \in 1..Len(outbox[c]) :
            /\ outbox[c][i] = [env |-> RateLimitError, by |-> c]
            /\ i + 1 <= Len(outbox[c])
            /\ IsUser(outbox[c][i + 1])
            /\ active_connections[ws_sid[c]] = c
            /\ SessionOf(ws_sid[c]).status = "active"

\* C22: in every state, a registered session has the status "active"
\* exactly when the connection registry holds a binding for its identifier.
C22_Claim ==
    \A sid \in SessionIds :
        session_known(active_sessions, sid) =>
            (SessionOf(sid).status = "active"
               <=> active_connections[sid] # NoChan)

\* The websocket d is open and being serviced: accepted, its client there,
\* its handler running.
OpenChannel(d) == accepted[d] /\ ~clientGone[d] /\ pc[d] # "done"

\* C23: teardown is local to a websocket.  A binding is removed only when
\* the handler of the bound websocket ends or a send on the bound websocket
\* fails, never by the end of the handler of another websocket of the same
\* session; and no session record becomes "completed" while a websocket
\* other than the one whose handler ends is open for it.
C23_Claim ==
    [][/\ \A sid \in SessionIds, d \in Channels :
            (active_connections[sid] = d /\ active_connections'[sid] = NoChan)
               => \/ pc[d] # "done" /\ pc'[d] = "done"
                  \/ \E c \in Channels :
                        /\ pc[c] = "sending" /\ ~pending[c].ok
                        /\ pending[c].target = d
                        /\ pending'[c] # pending[c]
       /\ \A c, d \in Channels :
            (c # d /\ pc[c] # "done" /\ pc'[c] = "done" /\ OpenChannel(d)
               /\ ws_sid[d] = ws_sid[c]
               /\ session_known(active_sessions, ws_sid[c]))
               => SessionOf(ws_sid[c])'.status # "completed"
      ]_vars

\* C24: every envelope delivered on a websocket was produced by the handler
\* of that websocket, in response to its own connect or frames; an envelope
\* a handler produces is delivered on its own websocket or dropped.
C24_Claim ==
    \A c \in Channels :
        \A i \in 1..Len(outbox[c]) : outbox[c][i].by = c

====
